---- MODULE Spec2Model ----
(***************************************************************************)
(* A model of pandaproxy.ftp_proxy.FTPProxy (src/src/pandaproxy/           *)
(* ftp_proxy.py): the start()/stop() lifecycle, the listeners, the         *)
(* per-connection handler tasks and the byte pipe of one connection.       *)
(* With it, the command line and supervisor of src/src/pandaproxy/cli.py.  *)
(*                                                                         *)
(* The code runs on one asyncio event loop: a coroutine runs without       *)
(* interruption from one await that suspends to the next.  Every action    *)
(* below is one such uninterrupted segment of a coroutine, or one event of *)
(* the environment (a peer, the operating system).                         *)
(***************************************************************************)
EXTENDS Integers, Sequences, FiniteSets, TLC

(***************************************************************************)
(* Bounds of the model.                                                    *)
(***************************************************************************)
\* number of ports of the data range that are modelled
MaxDataPorts == 2
\* number of connections accepted in one behaviour
MaxConns == 1
\* number of start() calls in one behaviour
MaxStartCalls == 2
\* number of bytes a peer sends in one direction of the piped connection
MaxBytes == 2

(***************************************************************************)
(* Program constants.                                                      *)
(***************************************************************************)
FTP_PORT == 990
FTP_DATA_PORT_START == 2000
\* the source's range ends at 2100; the model keeps its first MaxDataPorts ports
FTP_DATA_PORT_END == FTP_DATA_PORT_START + MaxDataPorts - 1
READ_SIZE == 65536

\* An asyncio.Server object: the start() call that created it and its port.
NoServer == [call |-> 0, port |-> 0]

Range(s) == {s[i] : i \in DOMAIN s}

VARIABLES
    \* ---- FTPProxy fields
    running,              \* self._running
    control_server,       \* self._control_server (NoServer for None)
    data_servers,         \* self._data_servers, a list
    active_connections,   \* self._active_connections, a set of handler tasks
    \* ---- the event loop and the operating system
    listening,            \* the Server objects that are bound and accepting
    waitClosedWaits,      \* whether Server.wait_closed() waits for the server's
                          \* connections (CPython >= 3.12) or only for close()
    conns,                \* the accepted connections and their handler tasks
    \* ---- the start() call in progress
    startPc, startCall, startPort, startSrv,
    \* ---- the stop() call in progress
    stopPc, stopIdx, gathered,
    \* ---- history
    nStartCalls,          \* start() calls made so far
    startRet,             \* outcome of the last start() that passed the guard
    failedPorts,          \* data ports whose bind failed in that start()
    lastStopped,          \* a stop() has returned and start() was not called since
    everStopped,          \* some stop() has returned
    \* ---- the byte pipe of one connection (_forward_bidirectional)
    pipePc, pipeCancelled, fwd, inbuf, peerEof, peerErr, sent,
    \* ---- the command line (cli.main) and the supervisor (cli.run_proxy)
    cliPc,                \* where main() is
    camera_type,          \* what detect_camera_type returned ("none" before)
    installed,            \* the external binaries shutil.which finds
    exitCode,             \* the exit code of the process (-1 while it runs)
    supPc,                \* where run_proxy() is
    stop_event,           \* stop_event.is_set()
    handlersSet,          \* the signal handlers are registered
    proxies,              \* the proxy objects of run_proxy and their calls
    stopping,             \* index in StopSeq of the proxy whose stop() is awaited
    startErr,             \* an exception of start() is propagating
    \* ---- history
    nSignals,             \* signals delivered so far
    stopOrder,            \* the proxies stop() was called on, in order
    shutdownComplete,     \* line 120 was reached
    waited,               \* run_proxy has suspended in stop_event.wait()
    \* ---- start() calls that overlap
    frames,               \* where each start() call is, by call number
    attempts              \* history: the binds attempted, by call and port

lifeVars == <<running, control_server, data_servers, active_connections,
              listening, waitClosedWaits, conns,
              startPc, startCall, startPort, startSrv,
              stopPc, stopIdx, gathered,
              nStartCalls, startRet, failedPorts, lastStopped,
              everStopped>>

pipeVars == <<pipePc, pipeCancelled, fwd, inbuf, peerEof, peerErr, sent>>

supVars == <<cliPc, camera_type, installed, exitCode, supPc, stop_event,
             handlersSet, proxies, stopping, startErr, nSignals, stopOrder,
             shutdownComplete, waited>>

raceVars == <<frames, attempts>>

vars == <<lifeVars, pipeVars, supVars, raceVars>>

(***************************************************************************)
(* FTPProxy.__init__                                                       *)
(***************************************************************************)
port == FTP_PORT

ProxyInit ==
    /\ running = FALSE
    /\ control_server = NoServer
    /\ data_servers = <<>>
    /\ active_connections = {}

LoopInit ==
    /\ listening = {}
    /\ waitClosedWaits \in BOOLEAN
    /\ conns = <<>>
    /\ startPc = "idle" /\ startCall = 0 /\ startPort = 0 /\ startSrv = NoServer
    /\ stopPc = "idle" /\ stopIdx = 0 /\ gathered = {}
    /\ nStartCalls = 0 /\ startRet = "none" /\ failedPorts = {}
    /\ lastStopped = FALSE /\ everStopped = FALSE

(***************************************************************************)
(* FTPProxy.start                                                          *)
(*                                                                         *)
(* asyncio.start_server suspends before it binds, binds and starts         *)
(* serving, then yields once more (sleep(0)) before it returns the Server  *)
(* to start(): binding a listener and storing it are two segments.         *)
(***************************************************************************)
\* line 54: if self._running: return
StartGuardNever == FALSE
StartGuard == running

\* line 68: range(FTP_DATA_PORT_START, FTP_DATA_PORT_END + 1)
DataPortRange == FTP_DATA_PORT_START..FTP_DATA_PORT_END

\* The operating system refuses a bind to a port one of the proxy's own
\* listeners still holds; any other bind may succeed or fail (port in use).
PortFree(p) == \A s \in listening : s.port # p

\* The for statement reaches data_port = p: start_server is called and
\* suspends, or the range is exhausted and start() returns.
EnterLoop(p) ==
    IF p \in DataPortRange
    THEN /\ startPc' = "bind_data"
         /\ startPort' = p
         /\ UNCHANGED startRet
    ELSE /\ startPc' = "idle"
         /\ startPort' = 0
         /\ startRet' = "ok"

\* The caller awaits each start() and stop() before it makes the next call.
CallerIdle == startPc = "idle" /\ stopPc = "idle"

StartCall ==
    /\ CallerIdle
    /\ nStartCalls < MaxStartCalls
    /\ nStartCalls' = nStartCalls + 1
    /\ lastStopped' = FALSE
    /\ IF StartGuard
       THEN UNCHANGED <<running, startPc, startCall, startRet, failedPorts>>
       ELSE /\ running' = TRUE
            /\ startPc' = "bind_control"
            /\ startCall' = nStartCalls + 1
            /\ startRet' = "pending"
            /\ failedPorts' = {}
    /\ UNCHANGED <<control_server, data_servers, active_connections, listening, waitClosedWaits, conns, startPort, startSrv,
                   stopPc, stopIdx, gathered, everStopped>>
    /\ UNCHANGED <<pipeVars, supVars, raceVars>>

\* lines 61-65: no except clause: a bind error of the control port leaves start()
OnControlBindErrorSkip == EnterLoop(FTP_DATA_PORT_START)
OnControlBindError ==
    /\ startPc' = "idle"
    /\ startRet' = "raised"
    /\ UNCHANGED startPort

\* lines 61-65: the control listener binds, or the bind fails
StartBindControl ==
    /\ startPc = "bind_control"
    /\ \E ok \in BOOLEAN :
         /\ ok => PortFree(port)
         /\ IF ok
            THEN LET srv == [call |-> startCall, port |-> port] IN
                 /\ listening' = listening \cup {srv}
                 /\ startSrv' = srv
                 /\ startPc' = "store_control"
                 /\ UNCHANGED <<startRet, startPort>>
            ELSE /\ OnControlBindError
                 /\ UNCHANGED <<listening, startSrv>>
    /\ UNCHANGED <<running, control_server, data_servers, active_connections,
                   waitClosedWaits, conns, startCall,
                   stopPc, stopIdx, gathered, nStartCalls, failedPorts, lastStopped, everStopped>>
    /\ UNCHANGED <<pipeVars, supVars, raceVars>>

\* line 61 (the assignment), then line 68: the loop over the data ports begins
StartStoreControl ==
    /\ startPc = "store_control"
    /\ control_server' = startSrv
    /\ startSrv' = NoServer
    /\ EnterLoop(FTP_DATA_PORT_START)
    /\ UNCHANGED <<running, data_servers, active_connections, listening,
                   waitClosedWaits, conns, startCall,
                   stopPc, stopIdx, gathered, nStartCalls, failedPorts, lastStopped, everStopped>>
    /\ UNCHANGED <<pipeVars, supVars, raceVars>>

\* lines 76-78: except OSError: log, go on with the next port
OnDataBindErrorRaise(p) ==
    /\ startPc' = "idle"
    /\ startPort' = 0
    /\ startRet' = "raised"
    /\ failedPorts' = failedPorts \cup {p}
OnDataBindError(p) ==
    /\ failedPorts' = failedPorts \cup {p}
    /\ EnterLoop(p + 1)

\* lines 70-74: the listener of data_port binds, or the bind fails
StartBindData ==
    /\ startPc = "bind_data"
    /\ \E ok \in BOOLEAN :
         /\ ok => PortFree(startPort)
         /\ IF ok
            THEN LET srv == [call |-> startCall, port |-> startPort] IN
                 /\ listening' = listening \cup {srv}
                 /\ startSrv' = srv
                 /\ startPc' = "store_data"
                 /\ UNCHANGED <<startPort, startRet, failedPorts>>
            ELSE /\ OnDataBindError(startPort)
                 /\ UNCHANGED <<listening, startSrv>>
    /\ UNCHANGED <<running, control_server, data_servers, active_connections,
                   waitClosedWaits, conns, startCall,
                   stopPc, stopIdx, gathered, nStartCalls, lastStopped, everStopped>>
    /\ UNCHANGED <<pipeVars, supVars, raceVars>>

\* line 75: self._data_servers.append(server), then the next iteration
StartStoreData ==
    /\ startPc = "store_data"
    /\ data_servers' = Append(data_servers, startSrv)
    /\ startSrv' = NoServer
    /\ EnterLoop(startPort + 1)
    /\ UNCHANGED <<running, control_server, active_connections, listening,
                   waitClosedWaits, conns, startCall,
                   stopPc, stopIdx, gathered, nStartCalls, failedPorts, lastStopped, everStopped>>
    /\ UNCHANGED <<pipeVars, supVars, raceVars>>

(***************************************************************************)
(* Connections.  asyncio creates the handler task when a listener accepts; *)
(* the task runs its first segment in a later iteration of the loop.       *)
(***************************************************************************)
\* lines 62 and 71: the port the listener's callback passes to the handler
HandlerPortLate(srv) == IF srv.port = port THEN port ELSE FTP_DATA_PORT_END
HandlerPort(srv) == IF srv.port = port THEN port ELSE srv.port

\* a listener accepts a connection, the n-th at most
AcceptUpTo(n) ==
    /\ Len(conns) < n
    /\ \E srv \in listening :
         conns' = Append(conns, [srv |-> srv, port |-> HandlerPort(srv),
                                 pc |-> "created", cancelled |-> FALSE,
                                 clientOpen |-> TRUE, upOpen |-> FALSE,
                                 dialed |-> <<>>])
    /\ UNCHANGED <<running, control_server, data_servers, active_connections,
                   listening, waitClosedWaits,
                   startPc, startCall, startPort, startSrv,
                   stopPc, stopIdx, gathered,
                   nStartCalls, startRet, failedPorts, lastStopped,
                   everStopped>>
    /\ UNCHANGED <<pipeVars, supVars, raceVars>>

Accept == AcceptUpTo(MaxConns)

\* Everything but conns and active_connections, which the handlers change.
handlerFrame == <<running, control_server, data_servers,
                  listening, waitClosedWaits,
                  startPc, startCall, startPort, startSrv,
                  stopPc, stopIdx, gathered,
                  nStartCalls, startRet, failedPorts, lastStopped,
                  everStopped>>

Finished(c) == c.pc = "done"

\* line 133: the upstream connection is opened to (printer_ip, port)
UpstreamPort(c) == c.port

\* lines 119-135: the handler's first segment registers the task and calls
\* open_connection(self.printer_ip, port) under wait_for
HandlerStart(i) ==
    /\ conns[i].pc = "created"
    /\ active_connections' = active_connections \cup {i}
    /\ conns' = [conns EXCEPT ![i].pc = "connecting",
                              ![i].dialed = Append(@, UpstreamPort(conns[i]))]
    /\ UNCHANGED handlerFrame
    /\ UNCHANGED <<pipeVars, supVars, raceVars>>

\* lines 132-141: the printer accepts; the pipe starts
ConnectOk(i) ==
    /\ conns[i].pc = "connecting"
    /\ ~conns[i].cancelled
    /\ conns' = [conns EXCEPT ![i].pc = "piping", ![i].upOpen = TRUE]
    /\ UNCHANGED active_connections
    /\ UNCHANGED handlerFrame
    /\ UNCHANGED <<pipeVars, supVars, raceVars>>

\* lines 143-150: the three except clauses log and fall through to finally
OnConnectErrorPipe == "piping"
OnConnectError == "close_client"

\* lines 143-149: the connect times out after 10 s, is refused, or fails
ConnectFail(i) ==
    /\ conns[i].pc = "connecting"
    /\ ~conns[i].cancelled
    /\ conns' = [conns EXCEPT ![i].pc = OnConnectError]
    /\ UNCHANGED active_connections
    /\ UNCHANGED handlerFrame
    /\ UNCHANGED <<pipeVars, supVars, raceVars>>

\* lines 190-196: one direction of the pipe ends (EOF or error of a peer);
\* the handler cancels the other direction and awaits it
PipeEnd(i) ==
    /\ conns[i].pc = "piping"
    /\ ~conns[i].cancelled
    /\ conns' = [conns EXCEPT ![i].pc = "reaping"]
    /\ UNCHANGED active_connections
    /\ UNCHANGED handlerFrame
    /\ UNCHANGED <<pipeVars, supVars, raceVars>>

\* lines 193-196, 149-150: the cancelled direction has ended; the pipe returns
\* and the handler's finally block starts to close the client socket
Reaped(i) ==
    /\ conns[i].pc = "reaping"
    /\ conns' = [conns EXCEPT ![i].pc = "close_client"]
    /\ UNCHANGED active_connections
    /\ UNCHANGED handlerFrame
    /\ UNCHANGED <<pipeVars, supVars, raceVars>>

\* The two forward tasks of a pipe (lines 185-186): client -> printer and
\* printer -> client.
Dirs == {"c2p", "p2c"}

\* The event loop runs its callbacks in the order they were scheduled: the
\* steps that deliver the cancel() of lines 194 and 199-200 to the forward
\* tasks are scheduled before the handler suspends in close_writer, and so
\* run before the handler resumes from it.
CancelsRun == \A d \in Dirs : ~fwd[d].cancelReq

\* lines 150-155: close_writer(client_writer) has returned
ClientClosed(i) ==
    /\ conns[i].pc = "close_client"
    /\ ~conns[i].cancelled
    /\ CancelsRun
    /\ IF conns[i].upOpen
       THEN /\ conns' = [conns EXCEPT ![i].pc = "close_upstream",
                                      ![i].clientOpen = FALSE]
            /\ UNCHANGED active_connections
       ELSE /\ conns' = [conns EXCEPT ![i].pc = "done",
                                      ![i].clientOpen = FALSE]
            /\ active_connections' = active_connections \ {i}
    /\ UNCHANGED handlerFrame
    /\ UNCHANGED <<pipeVars, supVars, raceVars>>

\* lines 151-155: close_writer(upstream_writer) has returned
UpstreamClosed(i) ==
    /\ conns[i].pc = "close_upstream"
    /\ ~conns[i].cancelled
    /\ conns' = [conns EXCEPT ![i].pc = "done", ![i].upOpen = FALSE]
    /\ active_connections' = active_connections \ {i}
    /\ UNCHANGED handlerFrame
    /\ UNCHANGED <<pipeVars, supVars, raceVars>>

\* pandaproxy.helper.close_writer: half-close, a drain awaited with a
\* bounded timeout, full close.  Cancelled while it awaits, it may or may not
\* have closed the socket.
CloseWriterCancelled == BOOLEAN

\* The CancelledError of task.cancel() reaches the handler at the await it
\* is suspended in.  In the try block (lines 132-141) it leaves through the
\* finally block; inside the finally block (lines 150-152) it ends the task
\* at once: what is left of the block is skipped, and whether the socket
\* being closed got closed is up to close_writer.
CancelDeliver(i) ==
    /\ conns[i].cancelled
    /\ \/ /\ conns[i].pc \in {"connecting", "piping"}
          /\ conns' = [conns EXCEPT ![i].pc = "close_client",
                                    ![i].cancelled = FALSE]
       \/ /\ conns[i].pc = "close_client"
          /\ \E closed \in CloseWriterCancelled :
               conns' = [conns EXCEPT ![i].pc = "done",
                                      ![i].cancelled = FALSE,
                                      ![i].clientOpen = ~closed]
       \/ /\ conns[i].pc = "close_upstream"
          /\ \E closed \in CloseWriterCancelled :
               conns' = [conns EXCEPT ![i].pc = "done",
                                      ![i].cancelled = FALSE,
                                      ![i].upOpen = ~closed]
    /\ UNCHANGED active_connections
    /\ UNCHANGED handlerFrame
    /\ UNCHANGED <<pipeVars, supVars, raceVars>>

(***************************************************************************)
(* FTPProxy.stop                                                           *)
(*                                                                         *)
(* stop() suspends only in gather (when there are tasks to await) and in   *)
(* a wait_closed() that has to wait; the code between two suspensions is   *)
(* one segment.  The operators below are the rest of stop() from a given   *)
(* line on, up to the next suspension or the return.                       *)
(***************************************************************************)
\* Server.wait_closed(): an open server makes it wait for close(); a closed
\* one makes it wait for the server's connections where the runtime does so.
Attached(srv) == {i \in DOMAIN conns : conns[i].srv = srv /\ conns[i].clientOpen}
WaitBlocks(srv, lst) ==
    IF srv \in lst THEN TRUE ELSE waitClosedWaits /\ Attached(srv) # {}

\* the first index from i on whose wait_closed() suspends (lines 106-107)
RECURSIVE FirstBlocking(_, _)
FirstBlocking(i, lst) ==
    IF i > Len(data_servers) THEN i
    ELSE IF WaitBlocks(data_servers[i], lst) THEN i
    ELSE FirstBlocking(i + 1, lst)

\* lines 108-110: the list is cleared and stop() returns
StopReturn(lst) ==
    /\ listening' = lst
    /\ data_servers' = <<>>
    /\ stopPc' = "idle"
    /\ stopIdx' = 0
    /\ everStopped' = TRUE
    /\ lastStopped' = TRUE

\* lines 106-107 from index i on
StopWaitData(lst, i) ==
    LET j == FirstBlocking(i, lst) IN
    IF j > Len(data_servers)
    THEN StopReturn(lst)
    ELSE /\ listening' = lst
         /\ stopPc' = "wait_data"
         /\ stopIdx' = j
         /\ UNCHANGED <<data_servers, everStopped, lastStopped>>

\* lines 104-105: every server of the list is closed
StopCloseData(lst) == StopWaitData(lst \ Range(data_servers), 1)

\* lines 97-102: the set is cleared, the control server closed and awaited
StopCloseControlSkip(lst) ==
    /\ active_connections' = {}
    /\ StopCloseData(lst)
StopCloseControl(lst) ==
    /\ active_connections' = {}
    /\ IF control_server = NoServer
       THEN StopCloseData(lst)
       ELSE LET l1 == lst \ {control_server} IN
            IF WaitBlocks(control_server, l1)
            THEN /\ listening' = l1
                 /\ stopPc' = "wait_control"
                 /\ stopIdx' = 0
                 /\ UNCHANGED <<data_servers, everStopped, lastStopped>>
            ELSE StopCloseData(l1)

\* line 94: task.cancel().  A task suspended in "await task" of the pipe
\* (line 196) passes the request on to that task, which is being cancelled
\* already, and suppresses the CancelledError that comes back.
CancelTask(c) ==
    IF c.pc \in {"connecting", "piping", "close_client", "close_upstream"}
    THEN [c EXCEPT !.cancelled = TRUE]
    ELSE c

\* line 93: the tasks stop() cancels
CancelTargets == active_connections

\* line 90: self._running = False
StopRunningKept == running
StopRunning == FALSE

\* lines 89-96, and on to the first suspension
StopCall ==
    /\ CallerIdle
    /\ running' = StopRunning
    /\ startRet' = "none"
    /\ failedPorts' = {}
    /\ conns' = [i \in DOMAIN conns |->
                    IF i \in CancelTargets THEN CancelTask(conns[i]) ELSE conns[i]]
    /\ IF active_connections # {}
       THEN /\ stopPc' = "gather"
            /\ gathered' = active_connections
            /\ UNCHANGED <<active_connections, listening, data_servers, stopIdx, everStopped, lastStopped>>
       ELSE /\ StopCloseControl(listening)
            /\ UNCHANGED gathered
    /\ UNCHANGED <<control_server, waitClosedWaits,
                   startPc, startCall, startPort, startSrv, nStartCalls>>
    /\ UNCHANGED <<pipeVars, supVars, raceVars>>

\* line 96: every gathered task has ended
StopGathered ==
    /\ stopPc = "gather"
    /\ \A i \in gathered : Finished(conns[i])
    /\ gathered' = {}
    /\ StopCloseControl(listening)
    /\ UNCHANGED <<running, control_server, waitClosedWaits, conns,
                   startPc, startCall, startPort, startSrv,
                   nStartCalls, startRet, failedPorts>>
    /\ UNCHANGED <<pipeVars, supVars, raceVars>>

\* line 102: wait_closed() of the control server returns
StopControlClosed ==
    /\ stopPc = "wait_control"
    /\ ~WaitBlocks(control_server, listening)
    /\ StopCloseData(listening)
    /\ UNCHANGED <<running, control_server, active_connections,
                   waitClosedWaits, conns, gathered,
                   startPc, startCall, startPort, startSrv,
                   nStartCalls, startRet, failedPorts>>
    /\ UNCHANGED <<pipeVars, supVars, raceVars>>

\* line 107: wait_closed() of a data server returns
StopDataClosed ==
    /\ stopPc = "wait_data"
    /\ ~WaitBlocks(data_servers[stopIdx], listening)
    /\ StopWaitData(listening, stopIdx + 1)
    /\ UNCHANGED <<running, control_server, active_connections,
                   waitClosedWaits, conns, gathered,
                   startPc, startCall, startPort, startSrv,
                   nStartCalls, startRet, failedPorts>>
    /\ UNCHANGED <<pipeVars, supVars, raceVars>>

(***************************************************************************)
(* FTPProxy._forward_bidirectional: the byte pipe of one connection.       *)
(* Direction "c2p" copies client -> printer, "p2c" printer -> client.      *)
(***************************************************************************)
Ends == {"client", "printer"}
Src(d) == IF d = "c2p" THEN "client" ELSE "printer"
Dst(d) == IF d = "c2p" THEN "printer" ELSE "client"

Min(a, b) == IF a < b THEN a ELSE b
Take(q, n) == SubSeq(q, 1, Min(n, Len(q)))
Drop(q, n) == SubSeq(q, Min(n, Len(q)) + 1, Len(q))

\* A forward task: where it is, whether a cancel() is waiting to be delivered,
\* and the bytes it has read, written, and seen drained.
IdleFwd == [pc |-> "off", cancelReq |-> FALSE, got |-> <<>>, put |-> <<>>,
            drained |-> <<>>]

PipeOff ==
    /\ pipePc = "off"
    /\ pipeCancelled = FALSE
    /\ fwd = [d \in Dirs |-> IdleFwd]
    /\ inbuf = [d \in Dirs |-> <<>>]
    /\ peerEof = [e \in Ends |-> FALSE]
    /\ peerErr = [e \in Ends |-> FALSE]
    /\ sent = [e \in Ends |-> <<>>]

\* lines 185-190: both forward tasks exist and the pipe awaits asyncio.wait
PipeStarted ==
    /\ pipePc = "wait"
    /\ pipeCancelled = FALSE
    /\ fwd = [d \in Dirs |-> [IdleFwd EXCEPT !.pc = "read"]]
    /\ inbuf = [d \in Dirs |-> <<>>]
    /\ peerEof = [e \in Ends |-> FALSE]
    /\ peerErr = [e \in Ends |-> FALSE]
    /\ sent = [e \in Ends |-> <<>>]

\* line 174: src.read(65536) returns what is buffered, at most 65536 bytes
ReadChunk(buf) == Take(buf, READ_SIZE)

\* line 177: dst.write(data) appends the chunk to what the writer was given
WriteChunkTwice(out, data) == out \o data \o data
WriteChunk(out, data) == out \o data

\* lines 181-182: except Exception: the error is logged and forward() returns
ForwardErrorUncaught == "failed"
ForwardError == "done"

\* line 178: await dst.drain() follows each write, before the next read
AfterWriteNoDrain == "read"
AfterWrite == "drain"

\* lines 174-177: the read returns a chunk, which is written; or it returns
\* b"" at EOF (break); or it raises, which line 181 catches
FwdRead(d) ==
    /\ fwd[d].pc = "read"
    /\ ~fwd[d].cancelReq
    /\ IF peerErr[Src(d)]
       THEN /\ fwd' = [fwd EXCEPT ![d].pc = ForwardError]
            /\ UNCHANGED inbuf
       ELSE IF inbuf[d] # <<>>
       THEN LET data == ReadChunk(inbuf[d]) IN
            /\ inbuf' = [inbuf EXCEPT ![d] = Drop(@, Len(data))]
            /\ fwd' = [fwd EXCEPT ![d].pc = AfterWrite,
                                  ![d].got = @ \o data,
                                  ![d].put = WriteChunk(@, data)]
       ELSE /\ peerEof[Src(d)]
            /\ fwd' = [fwd EXCEPT ![d].pc = "done"]
            /\ UNCHANGED inbuf
    /\ UNCHANGED <<pipePc, pipeCancelled, peerEof, peerErr, sent>>
    /\ UNCHANGED <<lifeVars, supVars, raceVars>>

\* line 178: dst.drain() returns, or raises because the destination is gone
FwdDrain(d) ==
    /\ fwd[d].pc = "drain"
    /\ ~fwd[d].cancelReq
    /\ IF peerErr[Dst(d)]
       THEN fwd' = [fwd EXCEPT ![d].pc = ForwardError]
       ELSE fwd' = [fwd EXCEPT ![d].pc = "read", ![d].drained = fwd[d].put]
    /\ UNCHANGED <<pipePc, pipeCancelled, inbuf, peerEof, peerErr, sent>>
    /\ UNCHANGED <<lifeVars, supVars, raceVars>>

\* lines 179-180: the CancelledError reaches the forward task at its await
FwdCancelled(d) ==
    /\ fwd[d].cancelReq
    /\ fwd[d].pc \in {"read", "drain"}
    /\ fwd' = [fwd EXCEPT ![d].pc = "cancelled", ![d].cancelReq = FALSE]
    /\ UNCHANGED <<pipePc, pipeCancelled, inbuf, peerEof, peerErr, sent>>
    /\ UNCHANGED <<lifeVars, supVars, raceVars>>

\* a forward task is done: it returned, was cancelled, or raised
FwdEnded(f) == f.pc \in {"done", "cancelled", "failed"}

\* task.cancel(): no effect on a task that is done
CancelFwd(f) == IF FwdEnded(f) THEN f ELSE [f EXCEPT !.cancelReq = TRUE]

\* lines 193-194: for task in pending: task.cancel()
CancelPendingNever(f) == f
CancelPending(f) == CancelFwd(f)

\* lines 199-200: task1.cancel(); task2.cancel()
CancelBothNever(f) == f
CancelBoth(f) == CancelFwd(f)

\* The handler of the piped connection: when _forward_bidirectional returns
\* or raises CancelledError, _handle_connection goes on to its finally block
\* (lines 149-150) and suspends in close_writer(client_writer).
PipeLeft(i) == [conns EXCEPT ![i].pc = "close_client"]
PipedConn == 1

\* lines 190-196: asyncio.wait returns when a direction has ended; the
\* pending direction is cancelled and awaited
PipeFirstDone ==
    /\ pipePc = "wait"
    /\ ~pipeCancelled
    /\ \E d \in Dirs : FwdEnded(fwd[d])
    /\ fwd' = [d \in Dirs |-> CancelPending(fwd[d])]
    /\ IF \A d \in Dirs : FwdEnded(fwd[d])
       THEN pipePc' = "returned" /\ conns' = PipeLeft(PipedConn)
       ELSE pipePc' = "reap" /\ UNCHANGED conns
    /\ UNCHANGED <<pipeCancelled, inbuf, peerEof, peerErr, sent>>
    /\ UNCHANGED handlerFrame
    /\ UNCHANGED active_connections
    /\ UNCHANGED <<supVars, raceVars>>

\* line 196: the cancelled direction has ended; the pipe returns
PipeReaped ==
    /\ pipePc = "reap"
    /\ \A d \in Dirs : FwdEnded(fwd[d])
    /\ pipePc' = "returned"
    /\ conns' = PipeLeft(PipedConn)
    /\ UNCHANGED <<pipeCancelled, fwd, inbuf, peerEof, peerErr, sent>>
    /\ UNCHANGED handlerFrame
    /\ UNCHANGED active_connections
    /\ UNCHANGED <<supVars, raceVars>>

\* line 94 seen from the pipe: stop() cancels the handler task while the
\* pipe awaits asyncio.wait
PipeCancel ==
    /\ pipePc = "wait"
    /\ ~pipeCancelled
    /\ pipeCancelled' = TRUE
    /\ UNCHANGED <<pipePc, fwd, inbuf, peerEof, peerErr, sent>>
    /\ UNCHANGED <<lifeVars, supVars, raceVars>>

\* lines 198-201: except CancelledError: both directions are cancelled, raise
PipeCancelled ==
    /\ pipePc = "wait"
    /\ pipeCancelled
    /\ fwd' = [d \in Dirs |-> CancelBoth(fwd[d])]
    /\ pipePc' = "raised"
    /\ pipeCancelled' = FALSE
    /\ conns' = PipeLeft(PipedConn)
    /\ UNCHANGED <<inbuf, peerEof, peerErr, sent>>
    /\ UNCHANGED handlerFrame
    /\ UNCHANGED active_connections
    /\ UNCHANGED <<supVars, raceVars>>

\* _forward_bidirectional is running: what the peers do afterwards reaches
\* no forward task.
PipeRunning == pipePc \in {"wait", "reap"}

\* A peer sends a byte: the loop buffers it in the StreamReader of its side.
PeerSend(e, b) ==
    /\ PipeRunning
    /\ Len(sent[e]) < MaxBytes
    /\ ~peerEof[e] /\ ~peerErr[e]
    /\ sent' = [sent EXCEPT ![e] = Append(@, b)]
    /\ inbuf' = [inbuf EXCEPT ![IF e = "client" THEN "c2p" ELSE "p2c"] = Append(@, b)]
    /\ UNCHANGED <<pipePc, pipeCancelled, fwd, peerEof, peerErr>>
    /\ UNCHANGED <<lifeVars, supVars, raceVars>>

\* The streams the two peers send: different bytes at every position, so
\* that a byte lost, repeated, reordered or sent the wrong way shows.
NextByte(e) == (Len(sent[e]) + (IF e = "client" THEN 0 ELSE 1)) % 2

\* A peer closes its sending side (EOF).
PeerEof(e) ==
    /\ PipeRunning
    /\ ~peerEof[e] /\ ~peerErr[e]
    /\ peerEof' = [peerEof EXCEPT ![e] = TRUE]
    /\ UNCHANGED <<pipePc, pipeCancelled, fwd, inbuf, peerErr, sent>>
    /\ UNCHANGED <<lifeVars, supVars, raceVars>>

\* A peer resets the connection: reads from it and drains to it raise.
PeerReset(e) ==
    /\ PipeRunning
    /\ ~peerErr[e]
    /\ peerErr' = [peerErr EXCEPT ![e] = TRUE]
    /\ UNCHANGED <<pipePc, pipeCancelled, fwd, inbuf, peerEof, sent>>
    /\ UNCHANGED <<lifeVars, supVars, raceVars>>

(***************************************************************************)
(* FTPProxy.start and FTPProxy.stop called without awaiting the call       *)
(* before: several start() calls are in progress at once, each with its    *)
(* own position, and stop() runs between two segments of a start().  No    *)
(* connection exists, so stop() has nothing to gather and wait_closed()    *)
(* returns at once: stop() runs in one segment (StopCall).                 *)
(***************************************************************************)
StartCalls == 1..MaxStartCalls

NoFrame == [pc |-> "none", port |-> 0, srv |-> NoServer]

RaceOff ==
    /\ frames = [c \in StartCalls |-> NoFrame]
    /\ attempts = {}

FrameIdle(f) == f.pc \in {"none", "returned", "raised"}

\* line 58: self._running = True, before the first await of start()
FlagAtCallUnset == running
FlagAtCall == TRUE

\* everything the segments of start() leave alone
raceFrame == <<active_connections, waitClosedWaits, conns,
               startPc, startCall, startPort, startSrv,
               stopPc, stopIdx, gathered, startRet, failedPorts, everStopped>>

\* line 68 for call c: the loop reaches data_port = p, or is exhausted
FrameEnterLoop(c, p) ==
    IF p \in DataPortRange
    THEN frames' = [frames EXCEPT ![c] = [pc |-> "bind_data", port |-> p,
                                          srv |-> NoServer]]
    ELSE frames' = [frames EXCEPT ![c] = [pc |-> "returned", port |-> 0,
                                          srv |-> NoServer]]

\* lines 54-61: the next start() call is made, whatever the calls before
\* are doing
RaceStartCall ==
    /\ nStartCalls < MaxStartCalls
    /\ nStartCalls' = nStartCalls + 1
    /\ lastStopped' = FALSE
    /\ IF StartGuard
       THEN /\ frames' = [frames EXCEPT ![nStartCalls + 1].pc = "returned"]
            /\ UNCHANGED running
       ELSE /\ running' = FlagAtCall
            /\ frames' = [frames EXCEPT ![nStartCalls + 1].pc = "bind_control"]
    /\ UNCHANGED <<control_server, data_servers, listening, attempts>>
    /\ UNCHANGED raceFrame
    /\ UNCHANGED <<pipeVars, supVars>>

\* lines 61-65 for call c: the control listener binds, or the bind raises
RaceBindControl(c) ==
    /\ frames[c].pc = "bind_control"
    /\ attempts' = attempts \cup {[call |-> c, port |-> port]}
    /\ \E ok \in BOOLEAN :
         /\ ok => PortFree(port)
         /\ IF ok
            THEN LET srv == [call |-> c, port |-> port] IN
                 /\ listening' = listening \cup {srv}
                 /\ frames' = [frames EXCEPT ![c].pc = "store_control",
                                             ![c].srv = srv]
            ELSE /\ frames' = [frames EXCEPT ![c].pc = "raised"]
                 /\ UNCHANGED listening
    /\ UNCHANGED <<running, control_server, data_servers, nStartCalls, lastStopped>>
    /\ UNCHANGED raceFrame
    /\ UNCHANGED <<pipeVars, supVars>>

\* lines 61 and 68 for call c: the assignment, then the loop begins
RaceStoreControl(c) ==
    /\ frames[c].pc = "store_control"
    /\ control_server' = frames[c].srv
    /\ FrameEnterLoop(c, FTP_DATA_PORT_START)
    /\ UNCHANGED <<running, data_servers, listening, nStartCalls, lastStopped,
                   attempts>>
    /\ UNCHANGED raceFrame
    /\ UNCHANGED <<pipeVars, supVars>>

\* lines 70-78 for call c: the data listener binds, or the port is skipped
RaceBindData(c) ==
    /\ frames[c].pc = "bind_data"
    /\ attempts' = attempts \cup {[call |-> c, port |-> frames[c].port]}
    /\ \E ok \in BOOLEAN :
         /\ ok => PortFree(frames[c].port)
         /\ IF ok
            THEN LET srv == [call |-> c, port |-> frames[c].port] IN
                 /\ listening' = listening \cup {srv}
                 /\ frames' = [frames EXCEPT ![c].pc = "store_data",
                                             ![c].srv = srv]
            ELSE /\ FrameEnterLoop(c, frames[c].port + 1)
                 /\ UNCHANGED listening
    /\ UNCHANGED <<running, control_server, data_servers, nStartCalls, lastStopped>>
    /\ UNCHANGED raceFrame
    /\ UNCHANGED <<pipeVars, supVars>>

\* line 75 for call c: the append, then the next iteration
RaceStoreData(c) ==
    /\ frames[c].pc = "store_data"
    /\ data_servers' = Append(data_servers, frames[c].srv)
    /\ FrameEnterLoop(c, frames[c].port + 1)
    /\ UNCHANGED <<running, control_server, listening, nStartCalls, lastStopped,
                   attempts>>
    /\ UNCHANGED raceFrame
    /\ UNCHANGED <<pipeVars, supVars>>

(***************************************************************************)
(* cli.py: main() detects the camera type, checks the external binaries    *)
(* and runs run_proxy(), the supervisor, which starts the proxy of the     *)
(* camera type, waits for a signal and stops the proxy.  The modules       *)
(* detection, chamber_proxy and rtsp_proxy are outside src/: a detection   *)
(* returns a camera type or raises RuntimeError, and a start() or stop()   *)
(* of a camera proxy returns or raises.                                    *)
(***************************************************************************)
\* number of signals delivered in one behaviour
MaxSignals == 2

Binaries == {"ffmpeg", "mediamtx", "openssl"}
CameraTypes == {"chamber", "rtsp"}

NoProxy == [obj |-> FALSE, start |-> "none", stop |-> "none"]

\* cli.py lines 114-118: the order in which the finally block stops proxies
StopSeq == <<"chamber", "rtsp">>

\* the process before main() has done anything; no supervisor
SupOff ==
    /\ cliPc = "off"
    /\ camera_type = "none"
    /\ installed = {}
    /\ exitCode = -1
    /\ supPc = "off"
    /\ stop_event = FALSE
    /\ handlersSet = FALSE
    /\ proxies = [k \in CameraTypes |-> NoProxy]
    /\ stopping = 0
    /\ startErr = FALSE
    /\ nSignals = 0
    /\ stopOrder = <<>>
    /\ shutdownComplete = FALSE
    /\ waited = FALSE

\* main() is entered, on a machine with some of the binaries installed
CliInit ==
    /\ cliPc = "detect"
    /\ camera_type = "none"
    /\ installed \in SUBSET Binaries
    /\ exitCode = -1
    /\ supPc = "off"
    /\ stop_event = FALSE
    /\ handlersSet = FALSE
    /\ proxies = [k \in CameraTypes |-> NoProxy]
    /\ stopping = 0
    /\ startErr = FALSE
    /\ nSignals = 0
    /\ stopOrder = <<>>
    /\ shutdownComplete = FALSE
    /\ waited = FALSE

\* shutil.which(name)
Which(name) == name \in installed

\* cli.py lines 35-40: the binaries looked for when camera_type == "rtsp"
RtspBinariesShort == <<"ffmpeg">>
RtspBinaries == <<"ffmpeg", "mediamtx">>

\* cli.py lines 42-43: the binary looked for when camera_type == "chamber"
ChamberBinaries == <<"openssl">>

\* the elements of a list that shutil.which does not find, in order
RECURSIVE MissingOf(_)
MissingOf(names) ==
    IF names = <<>> THEN <<>>
    ELSE (IF Which(Head(names)) THEN <<>> ELSE <<Head(names)>>)
             \o MissingOf(Tail(names))

\* cli.py lines 31-45: check_dependencies returns (len(missing) == 0, missing)
check_dependencies(ct) ==
    LET missing == (IF ct = "rtsp" THEN MissingOf(RtspBinaries) ELSE <<>>)
                   \o (IF ct = "chamber" THEN MissingOf(ChamberBinaries) ELSE <<>>)
    IN <<Len(missing) = 0, missing>>

\* cli.py lines 180-186: detect_camera_type returns, or raises RuntimeError
\* and main() exits with code 1
Detect ==
    /\ cliPc = "detect"
    /\ \/ \E ct \in CameraTypes :
            /\ camera_type' = ct
            /\ cliPc' = "check"
            /\ UNCHANGED exitCode
       \/ /\ cliPc' = "exited"
          /\ exitCode' = 1
          /\ UNCHANGED camera_type
    /\ UNCHANGED <<installed, supPc, stop_event, handlersSet, proxies, stopping,
                   startErr, nSignals, stopOrder, shutdownComplete>>
    /\ UNCHANGED <<lifeVars, pipeVars, raceVars, waited>>

\* cli.py lines 189-211: exit with code 1 if a binary is missing, else
\* asyncio.run(run_proxy(...))
CheckDeps ==
    /\ cliPc = "check"
    /\ IF check_dependencies(camera_type)[1]
       THEN /\ cliPc' = "run"
            /\ supPc' = "init"
            /\ UNCHANGED exitCode
       ELSE /\ cliPc' = "exited"
            /\ exitCode' = 1
            /\ UNCHANGED supPc
    /\ UNCHANGED <<camera_type, installed, stop_event, handlersSet, proxies,
                   stopping, startErr, nSignals, stopOrder, shutdownComplete>>
    /\ UNCHANGED <<lifeVars, pipeVars, raceVars, waited>>

\* cli.py lines 114-120, from the j-th proxy of StopSeq on, with the proxies
\* as in px and err telling whether an exception of start() is propagating:
\* stop() is called on the next proxy that was constructed and awaited; when
\* none is left, "Shutdown complete" is logged and run_proxy returns, or
\* re-raises.
StopFrom(j, px, err) ==
    LET left == {k \in j..Len(StopSeq) : px[StopSeq[k]].obj} IN
    IF left = {}
    THEN /\ proxies' = px
         /\ stopping' = 0
         /\ shutdownComplete' = TRUE
         /\ supPc' = IF err THEN "raised" ELSE "done"
         /\ UNCHANGED stopOrder
    ELSE LET k == CHOOSE m \in left : \A o \in left : m <= o IN
         /\ proxies' = [px EXCEPT ![StopSeq[k]].stop = "pending"]
         /\ stopping' = k
         /\ stopOrder' = Append(stopOrder, StopSeq[k])
         /\ supPc' = "stop"
         /\ UNCHANGED shutdownComplete

\* cli.py lines 55-96: the handlers are registered, the proxy of the camera
\* type is constructed and its start() is awaited
SupBegin ==
    /\ supPc = "init"
    /\ handlersSet' = TRUE
    /\ proxies' = [proxies EXCEPT ![camera_type] =
                       [obj |-> TRUE, start |-> "pending", stop |-> "none"]]
    /\ supPc' = "start"
    /\ UNCHANGED <<cliPc, camera_type, installed, exitCode, stop_event,
                   stopping, startErr, nSignals, stopOrder, shutdownComplete>>
    /\ UNCHANGED <<lifeVars, pipeVars, raceVars, waited>>

\* cli.py line 63: the handler of SIGINT and SIGTERM sets the event
SignalHandlerIgnores == stop_event
SignalHandler == TRUE

\* a signal is delivered while the loop of run_proxy runs
Signal ==
    /\ handlersSet
    /\ supPc \in {"start", "wait", "stop"}
    /\ nSignals < MaxSignals
    /\ nSignals' = nSignals + 1
    /\ stop_event' = SignalHandler
    /\ UNCHANGED <<cliPc, camera_type, installed, exitCode, supPc, handlersSet,
                   proxies, stopping, startErr, stopOrder, shutdownComplete>>
    /\ UNCHANGED <<lifeVars, pipeVars, raceVars, waited>>

\* cli.py line 109: asyncio.Event.wait() returns without suspending when the
\* event is set
EventWaitSuspendsFirst == FALSE
EventWaitReturns == stop_event

\* cli.py lines 78-109 (96-109): start() returns; stop_event.wait() suspends
\* unless the event is set already, and then the finally block runs at once
SupStartReturned ==
    /\ supPc = "start"
    /\ LET px == [proxies EXCEPT ![camera_type].start = "ok"] IN
       IF EventWaitReturns
       THEN /\ StopFrom(1, px, FALSE)
            /\ UNCHANGED waited
       ELSE /\ proxies' = px
            /\ supPc' = "wait"
            /\ waited' = TRUE
            /\ UNCHANGED <<stopping, stopOrder, shutdownComplete>>
    /\ UNCHANGED <<cliPc, camera_type, installed, exitCode, stop_event,
                   handlersSet, startErr, nSignals>>
    /\ UNCHANGED <<lifeVars, pipeVars, raceVars>>

\* cli.py lines 78, 111-115: start() raises; the finally block runs
SupStartRaised ==
    /\ supPc = "start"
    /\ startErr' = TRUE
    /\ StopFrom(1, [proxies EXCEPT ![camera_type].start = "raised"], TRUE)
    /\ UNCHANGED <<cliPc, camera_type, installed, exitCode, stop_event,
                   handlersSet, nSignals>>
    /\ UNCHANGED <<lifeVars, pipeVars, raceVars, waited>>

\* cli.py lines 109-115: the event is set; the finally block runs
SupWake ==
    /\ supPc = "wait"
    /\ stop_event
    /\ StopFrom(1, proxies, FALSE)
    /\ UNCHANGED <<cliPc, camera_type, installed, exitCode, stop_event,
                   handlersSet, startErr, nSignals>>
    /\ UNCHANGED <<lifeVars, pipeVars, raceVars, waited>>

\* cli.py lines 115-120: the stop() awaited returns; the next proxy is stopped
SupStopReturned ==
    /\ supPc = "stop"
    /\ StopFrom(stopping + 1,
                [proxies EXCEPT ![StopSeq[stopping]].stop = "ok"], startErr)
    /\ UNCHANGED <<cliPc, camera_type, installed, exitCode, stop_event,
                   handlersSet, startErr, nSignals>>
    /\ UNCHANGED <<lifeVars, pipeVars, raceVars, waited>>

\* cli.py lines 115, 118: nothing catches an exception of stop(): it leaves
\* the finally block and run_proxy
OnStopError(px) ==
    /\ proxies' = px
    /\ supPc' = "raised"
    /\ stopping' = 0
    /\ UNCHANGED <<stopOrder, shutdownComplete>>

\* cli.py lines 115-118: the stop() awaited raises
SupStopRaised ==
    /\ supPc = "stop"
    /\ OnStopError([proxies EXCEPT ![StopSeq[stopping]].stop = "raised"])
    /\ UNCHANGED <<cliPc, camera_type, installed, exitCode, stop_event,
                   handlersSet, startErr, nSignals>>
    /\ UNCHANGED <<lifeVars, pipeVars, raceVars, waited>>

\* cli.py lines 211-218: asyncio.run returns and main() ends (exit code 0),
\* or the exception of run_proxy ends the process (exit code 1)
CliExit ==
    /\ cliPc = "run"
    /\ supPc \in {"done", "raised"}
    /\ cliPc' = "exited"
    /\ exitCode' = IF supPc = "done" THEN 0 ELSE 1
    /\ UNCHANGED <<camera_type, installed, supPc, stop_event, handlersSet,
                   proxies, stopping, startErr, nSignals, stopOrder,
                   shutdownComplete>>
    /\ UNCHANGED <<lifeVars, pipeVars, raceVars, waited>>

(***************************************************************************)
(* Spec: the lifecycle of one FTPProxy and its connections.  The pipe of a *)
(* connection is a handler state ("piping") here; its bytes are PipeSpec's. *)
(***************************************************************************)
Init == ProxyInit /\ LoopInit /\ PipeOff /\ SupOff /\ RaceOff

Next ==
    \/ StartCall
    \/ StartBindControl
    \/ StartStoreControl
    \/ StartBindData
    \/ StartStoreData
    \/ Accept
    \/ \E i \in DOMAIN conns : HandlerStart(i)
    \/ \E i \in DOMAIN conns : ConnectOk(i)
    \/ \E i \in DOMAIN conns : ConnectFail(i)
    \/ \E i \in DOMAIN conns : PipeEnd(i)
    \/ \E i \in DOMAIN conns : Reaped(i)
    \/ \E i \in DOMAIN conns : ClientClosed(i)
    \/ \E i \in DOMAIN conns : UpstreamClosed(i)
    \/ \E i \in DOMAIN conns : CancelDeliver(i)
    \/ StopCall
    \/ StopGathered
    \/ StopControlClosed
    \/ StopDataClosed

Spec == Init /\ [][Next]_vars

(***************************************************************************)
(* PipeSpec: the pipe of one connection, accepted on the control port of a *)
(* started proxy, from the moment both forward tasks exist.                *)
(***************************************************************************)
PipeServers == {[call |-> 1, port |-> p] : p \in {port} \cup DataPortRange}

PipeInit ==
    /\ running = TRUE
    /\ control_server = [call |-> 1, port |-> port]
    /\ data_servers = [k \in 1..MaxDataPorts |->
                          [call |-> 1, port |-> FTP_DATA_PORT_START + k - 1]]
    /\ active_connections = {1}
    /\ listening = PipeServers
    /\ waitClosedWaits = TRUE
    /\ conns = <<[srv |-> [call |-> 1, port |-> port], port |-> port,
                  pc |-> "piping", cancelled |-> FALSE,
                  clientOpen |-> TRUE, upOpen |-> TRUE, dialed |-> <<port>>]>>
    /\ startPc = "idle" /\ startCall = 1 /\ startPort = 0 /\ startSrv = NoServer
    /\ stopPc = "idle" /\ stopIdx = 0 /\ gathered = {}
    /\ nStartCalls = 1 /\ startRet = "ok" /\ failedPorts = {}
    /\ lastStopped = FALSE /\ everStopped = FALSE
    /\ PipeStarted
    /\ SupOff
    /\ RaceOff

PipeNext ==
    \/ \E d \in Dirs : FwdRead(d)
    \/ \E d \in Dirs : FwdDrain(d)
    \/ \E d \in Dirs : FwdCancelled(d)
    \/ PipeFirstDone
    \/ PipeReaped
    \/ PipeCancel
    \/ PipeCancelled
    \/ \E e \in Ends : PeerSend(e, NextByte(e))
    \/ \E e \in Ends : PeerEof(e)
    \/ \E e \in Ends : PeerReset(e)
    \/ ClientClosed(PipedConn)
    \/ UpstreamClosed(PipedConn)

PipeSpec == PipeInit /\ [][PipeNext]_vars

(***************************************************************************)
(* SupSpec: one run of the command line, with the FTPProxy of the process  *)
(* as constructed: nothing in cli.py calls it.                             *)
(***************************************************************************)
SupInit == ProxyInit /\ LoopInit /\ PipeOff /\ CliInit /\ RaceOff

SupNext ==
    \/ Detect
    \/ CheckDeps
    \/ SupBegin
    \/ Signal
    \/ SupStartReturned
    \/ SupStartRaised
    \/ SupWake
    \/ SupStopReturned
    \/ SupStopRaised
    \/ CliExit

SupSpec == SupInit /\ [][SupNext]_vars

\* The loop resumes run_proxy when what it awaits is done, and start() and
\* stop() of a camera proxy end; a signal may never come.
SupFairSpec ==
    /\ SupSpec
    /\ WF_vars(SupBegin)
    /\ WF_vars(SupStartReturned \/ SupStartRaised)
    /\ WF_vars(SupWake)
    /\ WF_vars(SupStopReturned \/ SupStopRaised)
    /\ WF_vars(CliExit)

(***************************************************************************)
(* RaceSpec: start() calls that overlap, and stop() calls between their    *)
(* segments.                                                               *)
(***************************************************************************)
RaceNext ==
    \/ RaceStartCall
    \/ \E c \in StartCalls : RaceBindControl(c)
    \/ \E c \in StartCalls : RaceStoreControl(c)
    \/ \E c \in StartCalls : RaceBindData(c)
    \/ \E c \in StartCalls : RaceStoreData(c)
    \/ StopCall

RaceSpec == Init /\ [][RaceNext]_vars

(***************************************************************************)
(* ConnSpec: the connections of a started proxy that is not being stopped, *)
(* one connection more than in Spec, so that connections run side by side. *)
(***************************************************************************)
ConnInit ==
    /\ running = TRUE
    /\ control_server = [call |-> 1, port |-> port]
    /\ data_servers = [k \in 1..MaxDataPorts |->
                          [call |-> 1, port |-> FTP_DATA_PORT_START + k - 1]]
    /\ active_connections = {}
    /\ listening = PipeServers
    /\ waitClosedWaits \in BOOLEAN
    /\ conns = <<>>
    /\ startPc = "idle" /\ startCall = 1 /\ startPort = 0 /\ startSrv = NoServer
    /\ stopPc = "idle" /\ stopIdx = 0 /\ gathered = {}
    /\ nStartCalls = 1 /\ startRet = "ok" /\ failedPorts = {}
    /\ lastStopped = FALSE /\ everStopped = FALSE
    /\ PipeOff
    /\ SupOff
    /\ RaceOff

AcceptMore == AcceptUpTo(MaxConns + 1)

ConnNext ==
    \/ AcceptMore
    \/ \E i \in DOMAIN conns : HandlerStart(i)
    \/ \E i \in DOMAIN conns : ConnectOk(i)
    \/ \E i \in DOMAIN conns : ConnectFail(i)
    \/ \E i \in DOMAIN conns : PipeEnd(i)
    \/ \E i \in DOMAIN conns : Reaped(i)
    \/ \E i \in DOMAIN conns : ClientClosed(i)
    \/ \E i \in DOMAIN conns : UpstreamClosed(i)

ConnSpec == ConnInit /\ [][ConnNext]_vars

\* The event loop runs every callback that is ready: a cancel() that was
\* requested is delivered, and a coroutine whose await has completed resumes.
PipeFairSpec ==
    /\ PipeSpec
    /\ \A d \in Dirs : WF_vars(FwdCancelled(d))
    /\ WF_vars(PipeFirstDone)
    /\ WF_vars(PipeReaped)
    /\ WF_vars(PipeCancelled)

(***************************************************************************)
(* Properties.                                                             *)
(***************************************************************************)
IsPrefix(a, b) == Len(a) <= Len(b) /\ a = SubSeq(b, 1, Len(a))

\* C1 (PipeSpec): in each direction the bytes written to the destination are
\* a prefix of the bytes read from the source, which are a prefix of what the
\* source's peer sent, in the same order; and whenever the forwarder is about
\* to read again or has ended, every chunk it read has been written.
ThmC1_ByteExact ==
    \A d \in Dirs :
        /\ IsPrefix(fwd[d].put, fwd[d].got)
        /\ IsPrefix(fwd[d].got, sent[Src(d)])
        /\ fwd[d].got \o inbuf[d] = sent[Src(d)]
        /\ fwd[d].pc \in {"read", "done", "cancelled"} => fwd[d].put = fwd[d].got

\* both directions have forwarded two different bytes in order and wait to
\* read again
WitC1_BothForwarded ==
    /\ fwd["c2p"].put = <<0, 1>> /\ fwd["c2p"].pc = "read"
    /\ fwd["p2c"].put = <<1, 0>> /\ fwd["p2c"].pc = "read"

Alive(c) == ~Finished(c)

\* C2 (Spec): once stop() has returned (and until start() is called again)
\* no connection-handler task of the proxy is still running or yet to run.
CexC2_NoHandlerAfterStop ==
    (lastStopped /\ stopPc = "idle") => \A i \in DOMAIN conns : ~Alive(conns[i])

\* The steps the proxy takes by itself, whatever the peers do: its own
\* segments, the 10 s connect timeout, close_writer's bounded close.
ProxyStep ==
    \/ StartBindControl
    \/ StartStoreControl
    \/ StartBindData
    \/ StartStoreData
    \/ \E i \in DOMAIN conns : HandlerStart(i)
    \/ \E i \in DOMAIN conns : ConnectFail(i)
    \/ \E i \in DOMAIN conns : Reaped(i)
    \/ \E i \in DOMAIN conns : ClientClosed(i)
    \/ \E i \in DOMAIN conns : UpstreamClosed(i)
    \/ \E i \in DOMAIN conns : CancelDeliver(i)
    \/ StopGathered
    \/ StopControlClosed
    \/ StopDataClosed

\* C3 (Spec): a stop() in progress never depends on a peer: while stop() has
\* not returned, some step of the proxy itself is enabled, so that under fair
\* scheduling stop() returns even if every peer stays idle for ever.
CexC3_StopNeverWaitsForPeer == stopPc # "idle" => ENABLED ProxyStep

\* C4 (Spec): after the last stop() of any sequence of start() and stop()
\* calls has returned, the proxy is not running, no listener it ever bound
\* is open, and the list of data listeners is empty.
ThmC4_StoppedHoldsNothing ==
    lastStopped => (~running /\ listening = {} /\ data_servers = <<>>)

\* a second start/stop cycle has ended, and a connection had been accepted
WitC4_TwoCyclesStopped ==
    lastStopped /\ stopPc = "idle" /\ nStartCalls >= 2 /\ startCall >= 2 /\ conns # <<>>

ControlOf(k) == [call |-> k, port |-> FTP_PORT]

\* C5 (Spec): a start() whose control-port bind fails raises at once, and
\* while that is the outcome of start() no listener of the proxy is open (no
\* data port was bound) and the list of data listeners is empty.
ThmC5_ControlBindFailureIsFatal ==
    /\ [](startRet = "raised" =>
            (startPc = "idle" /\ listening = {} /\ data_servers = <<>>))
    /\ [][(startPc = "bind_control" /\ startPc' # "bind_control"
              /\ ControlOf(startCall) \notin listening')
            => (startRet' = "raised" /\ startPc' = "idle")]_vars

\* a start() has raised
WitC5_StartRaised == startRet = "raised" /\ running

\* the data-port range of the specification, [2000, 2100]
DataPorts == FTP_DATA_PORT_START..FTP_DATA_PORT_END
PortsOf(servers) == {srv.port : srv \in servers}

\* C6 (Spec): when the control port binds, start() returns normally whatever
\* data ports fail to bind (only the control bind makes it raise), and then
\* the data listeners are the ports of [2000, 2100] whose bind did not fail,
\* each once and in order, all of them open, beside the open control listener.
ThmC6_DataBindFailuresSkipped ==
    /\ [](startRet = "ok" =>
            /\ startPc = "idle"
            /\ control_server = ControlOf(startCall)
            /\ PortsOf(Range(data_servers)) = DataPorts \ failedPorts
            /\ \A j, k \in DOMAIN data_servers :
                   j < k => data_servers[j].port < data_servers[k].port
            /\ \A k \in DOMAIN data_servers : data_servers[k].call = startCall
            /\ listening = {control_server} \cup Range(data_servers))
    /\ [][(startRet' = "raised" /\ startRet # "raised") => startPc = "bind_control"]_vars
    /\ [][(startPc = "bind_data" /\ startPc' # "bind_data"
              /\ [call |-> startCall, port |-> startPort] \notin listening')
            => (startPort \in failedPorts' /\ startRet' \in {"pending", "ok"})]_vars

\* start() has returned with the first data port skipped and the rest bound
WitC6_FirstDataPortSkipped ==
    /\ startRet = "ok"
    /\ failedPorts = {FTP_DATA_PORT_START}
    /\ Len(data_servers) = Cardinality(DataPorts) - 1

\* C7 (Spec): a handler opens its one upstream connection in its first
\* segment, to the port of the listener that accepted its connection.
ThmC7_UpstreamSamePort ==
    \A i \in DOMAIN conns :
        /\ conns[i].pc = "created" => conns[i].dialed = <<>>
        /\ conns[i].pc # "created" => conns[i].dialed = <<conns[i].srv.port>>
        /\ conns[i].upOpen => conns[i].dialed = <<conns[i].srv.port>>

\* a connection accepted on the first data port, which is not the last of the
\* range, is piped to the printer
WitC7_DataPortPiped ==
    \E i \in DOMAIN conns :
        /\ conns[i].srv.port = FTP_DATA_PORT_START
        /\ FTP_DATA_PORT_START < FTP_DATA_PORT_END
        /\ conns[i].pc = "piping"
        /\ conns[i].upOpen

\* C8 (Spec): a start() called while the proxy is marked running returns at
\* once: it binds nothing, adds no listener and changes no state.
ThmC8_StartTwiceIsStartOnce ==
    [][(nStartCalls' = nStartCalls + 1 /\ running)
         => /\ startPc' = startPc
            /\ startRet' = startRet
            /\ UNCHANGED <<running, control_server, data_servers,
                           active_connections, listening, conns>>]_vars

\* a second start() was called on a proxy that the first start() had started
WitC8_SecondStartReturned ==
    /\ nStartCalls = 2 /\ startCall = 1
    /\ startRet = "ok" /\ running /\ listening # {}

\* C9 (Spec): stop() on a proxy that a stop() has already stopped does
\* nothing: it cancels no task, has nothing to await, closes no listener and
\* leaves the proxy's fields as they are.
CexC9_StopTwiceIsStopOnce ==
    [][(lastStopped /\ stopPc = "idle" /\ nStartCalls' = nStartCalls)
         => /\ stopPc' = "idle"
            /\ \A i \in DOMAIN conns : conns'[i].cancelled => conns[i].cancelled
            /\ UNCHANGED <<running, control_server, data_servers, listening>>]_vars

\* C10 as claimed (Spec): a proxy that has been stopped never binds a
\* listener again and never runs again.
CexC10_StoppedForGood == everStopped => (~running /\ listening = {})

State ==
    IF startPc # "idle" THEN "Starting"
    ELSE IF stopPc # "idle" THEN "Stopping"
    ELSE IF running THEN "Running"
    ELSE IF everStopped THEN "Stopped"
    ELSE "Idle"

LifecycleOrder ==
    {<<"Idle", "Starting">>, <<"Starting", "Running">>,
     <<"Running", "Stopping">>, <<"Stopping", "Stopped">>,
     <<"Running", "Stopped">>, <<"Idle", "Stopped">>,
     <<"Stopped", "Stopping">>, <<"Stopped", "Starting">>}

\* C10 as amended (Spec): the lifecycle runs Idle -> Starting -> Running ->
\* Stopping -> Stopped and from Stopped to Starting again; start() is a no-op
\* exactly while the running flag is set, and a listener is bound only by a
\* start() in progress.
ThmC10_LifecycleRestartable ==
    /\ [][State' # State => <<State, State'>> \in LifecycleOrder]_vars
    /\ [][nStartCalls' = nStartCalls + 1
            => (IF running THEN startPc' = startPc
                ELSE startPc' = "bind_control" /\ running')]_vars
    /\ [][~(listening' \subseteq listening)
            => (running /\ startPc \in {"bind_control", "bind_data"})]_vars

\* a proxy that was stopped runs again, with its listeners bound anew
WitC10_RunsAgain ==
    /\ everStopped /\ State = "Running"
    /\ startRet = "ok" /\ control_server \in listening

\* C11 (PipeFairSpec): the pipe returns only when both forward tasks have
\* ended; while it awaits the pending direction, that direction has been
\* cancelled and copies nothing more; and once one direction has ended the
\* other always ends too, so the pipe never stays open one-way.
ThmC11_ReturnsWhenBothEnded ==
    /\ [](pipePc = "returned" => \A d \in Dirs : FwdEnded(fwd[d]))
    /\ [](pipePc = "reap" =>
            \A d \in Dirs : FwdEnded(fwd[d]) \/ fwd[d].cancelReq)
    /\ [][pipePc = "reap" => \A d \in Dirs : fwd'[d].put = fwd[d].put]_vars
    /\ ((\E d \in Dirs : FwdEnded(fwd[d])) ~> (\A d \in Dirs : FwdEnded(fwd[d])))
    /\ ((\E d \in Dirs : FwdEnded(fwd[d])) ~> (pipePc \in {"returned", "raised"}))

\* the client closed its side after the printer's bytes had been forwarded;
\* the printer -> client direction, still open, was cancelled and awaited
WitC11_OtherDirectionReaped ==
    /\ pipePc = "returned"
    /\ fwd["c2p"].pc = "done" /\ peerEof["client"]
    /\ fwd["p2c"].pc = "cancelled" /\ fwd["p2c"].put # <<>>
    /\ ~peerEof["printer"] /\ ~peerErr["printer"] /\ ~peerErr["client"]

\* C12 (PipeSpec): an error of a read or a drain ends the forward task like
\* an EOF does (no forward task ends by raising it), and
\* _forward_bidirectional raises only the CancelledError of a cancellation
\* from outside.
ThmC12_NoRaiseOnPeerReset ==
    /\ [](\A d \in Dirs : fwd[d].pc # "failed")
    /\ [][\A d \in Dirs :
            (~FwdEnded(fwd[d]) /\ ~fwd[d].cancelReq /\ FwdEnded(fwd'[d]))
                => fwd'[d].pc = "done"]_vars
    /\ [][(pipePc' = "raised" /\ pipePc # "raised") => pipeCancelled]_vars
    /\ []((\E e \in Ends : peerErr[e]) /\ (\A d \in Dirs : FwdEnded(fwd[d]))
            /\ pipePc \notin {"returned", "raised"}
          => ENABLED (PipeFirstDone \/ PipeReaped \/ PipeCancelled))

\* the printer reset the connection while a chunk written to it was being
\* drained: the drain raised, and the pipe has returned
WitC12_ResetDuringDrain ==
    /\ pipePc = "returned"
    /\ peerErr["printer"] /\ ~peerEof["client"] /\ ~peerErr["client"]
    /\ fwd["c2p"].pc = "done"
    /\ Len(fwd["c2p"].put) > Len(fwd["c2p"].drained)

Owned == {k \in CameraTypes : proxies[k].obj}

\* C15 (SupFairSpec): a signal delivered once the handlers are registered
\* sets the event, which nothing else sets; from then on stop() is eventually
\* called on every proxy run_proxy constructed and awaited to its end; stop()
\* is called once per proxy and only on constructed ones; and a proxy whose
\* start() returned is not stopped before the event is set.
ThmC15_SignalStopsProxies ==
    /\ [][nSignals' = nSignals + 1 => (handlersSet /\ stop_event')]_vars
    /\ [](stop_event => nSignals > 0)
    /\ (stop_event ~>
           (\A k \in Owned : proxies[k].stop \in {"ok", "raised"}))
    /\ [](\A k \in CameraTypes :
            (proxies[k].start = "ok" /\ proxies[k].stop # "none") => stop_event)
    /\ [](/\ \A i \in DOMAIN stopOrder : stopOrder[i] \in Owned
          /\ \A i, j \in DOMAIN stopOrder : stopOrder[i] = stopOrder[j] => i = j
          /\ \A k \in CameraTypes :
                 proxies[k].stop # "none" <=> k \in Range(stopOrder))
    /\ [](supPc = "done" => \A k \in Owned : proxies[k].stop = "ok")

\* one signal arrived while the RTSP proxy ran; its stop() has returned and
\* run_proxy has returned
WitC15_SignalledAndStopped ==
    /\ nSignals = 1 /\ stop_event /\ supPc = "done"
    /\ proxies["rtsp"] = [obj |-> TRUE, start |-> "ok", stop |-> "ok"]
    /\ stopOrder = <<"rtsp">>

\* C16 (SupSpec): when the stop() of a proxy has raised, run_proxy still goes
\* through the rest of its shutdown: either a stop() is being awaited or the
\* shutdown has completed (line 120).
CexC16_StopErrorDoesNotEndShutdown ==
    (\E k \in CameraTypes : proxies[k].stop = "raised")
        => (supPc = "stop" \/ shutdownComplete)

\* C17 (SupSpec): while run_proxy waits for the signal, with the camera proxy
\* started, the FTP proxy runs too: it is marked running and its control
\* listener is bound.
CexC17_FtpRunsBesideCamera ==
    supPc = "wait" => (running /\ control_server \in listening)

\* the binaries the camera types need
Required(ct) ==
    IF ct = "rtsp" THEN {"ffmpeg", "mediamtx"}
    ELSE IF ct = "chamber" THEN {"openssl"}
    ELSE {}

NoProxyMade ==
    /\ supPc = "off" /\ ~handlersSet
    /\ \A k \in CameraTypes : proxies[k] = NoProxy

\* C18 (SupSpec): when the detection failed, or a binary the detected camera
\* type needs is missing, main() has exited with code 1 before run_proxy was
\* entered, no proxy constructed; run_proxy is entered only with the binaries
\* present; and the exit code is 0 exactly after run_proxy returned, which it
\* does only after a signal, with every proxy stopped.
ThmC18_ExitCodes ==
    /\ (cliPc = "exited" /\ camera_type = "none") => (exitCode = 1 /\ NoProxyMade)
    /\ (cliPc \notin {"detect", "check"} /\ camera_type # "none"
           /\ ~(Required(camera_type) \subseteq installed))
          => (cliPc = "exited" /\ exitCode = 1 /\ NoProxyMade)
    /\ supPc # "off" => Required(camera_type) \subseteq installed
    /\ (cliPc = "exited" /\ supPc = "done") => exitCode = 0
    /\ exitCode = 0 =>
          /\ cliPc = "exited" /\ supPc = "done"
          /\ stop_event /\ shutdownComplete /\ ~startErr
          /\ \A k \in Owned : proxies[k].start = "ok" /\ proxies[k].stop = "ok"
    /\ (exitCode = -1) <=> (cliPc # "exited")

\* an RTSP camera was detected and mediamtx alone is missing: exit code 1
WitC18_MediamtxMissing ==
    /\ cliPc = "exited" /\ exitCode = 1
    /\ camera_type = "rtsp" /\ installed = {"ffmpeg", "openssl"}
    /\ NoProxyMade

\* C19 (PipeSpec): a forward task holds the one chunk it read last, of at most
\* 65536 bytes, until its drain has completed; it reads only when everything
\* it read before has been written and drained; while a drain is pending it
\* takes nothing from its source.
ThmC19_OneChunkBackpressure ==
    /\ [](\A d \in Dirs :
            /\ IsPrefix(fwd[d].drained, fwd[d].got)
            /\ Len(fwd[d].got) - Len(fwd[d].drained) <= READ_SIZE
            /\ fwd[d].pc = "read" => fwd[d].drained = fwd[d].got)
    /\ [][\A d \in Dirs :
            fwd'[d].got # fwd[d].got
                => /\ fwd[d].pc = "read" /\ fwd[d].drained = fwd[d].got
                   /\ fwd'[d].pc = "drain"
                   /\ fwd'[d].put = fwd'[d].got]_vars
    /\ [][\A d \in Dirs :
            (fwd[d].pc = "drain" /\ fwd'[d].pc = "drain")
                => fwd'[d].got = fwd[d].got /\ IsPrefix(inbuf[d], inbuf'[d])]_vars

\* the printer does not drain the first chunk, and the client's next byte
\* waits unread
WitC19_SourceWaitsForDrain ==
    /\ fwd["c2p"].pc = "drain" /\ fwd["c2p"].drained = <<>>
    /\ Len(fwd["c2p"].got) = 1 /\ inbuf["c2p"] # <<>>
    /\ ~peerErr["printer"]

CexC13_FinishedHandlerClosedSockets ==
    \A i \in DOMAIN conns :
        Finished(conns[i]) => (~conns[i].clientOpen /\ ~conns[i].upOpen)

\* a step in which connection i fails: its connect to the printer fails or
\* times out, or a direction of its pipe ends
FailureOf(i) ==
    \/ conns[i].pc = "connecting" /\ conns'[i].pc # "connecting" /\ ~conns'[i].upOpen
    \/ conns[i].pc = "piping" /\ conns'[i].pc = "reaping"

\* C14 (ConnSpec): a failure of one connection changes that connection only:
\* the proxy stays running with all its listeners bound and registered, and
\* every other connection is left as it is; a connection whose connect failed
\* is never piped, its handler closes the client socket and ends.
ThmC14_FailureIsLocal ==
    /\ [][\A i \in DOMAIN conns :
            FailureOf(i) =>
                /\ running' /\ listening' = PipeServers
                /\ UNCHANGED <<control_server, data_servers>>
                /\ \A j \in DOMAIN conns \ {i} : conns'[j] = conns[j]
                /\ active_connections' = active_connections]_vars
    /\ [](\A i \in DOMAIN conns :
            /\ conns[i].pc \in {"piping", "reaping"} => conns[i].upOpen
            /\ Finished(conns[i]) =>
                   /\ ~conns[i].clientOpen /\ ~conns[i].upOpen
                   /\ i \notin active_connections)
    /\ [][\A i \in DOMAIN conns :
            conns[i].pc \in {"close_client", "close_upstream", "done"}
                => conns'[i].pc \in {"close_client", "close_upstream", "done"}]_vars

\* the connect of one connection has failed while another connection is
\* piped, and the proxy still runs
WitC14_OneFailedOnePiping ==
    \E i, j \in DOMAIN conns :
        /\ i # j
        /\ conns[i].pc = "close_client" /\ ~conns[i].upOpen
        /\ conns[j].pc = "piping" /\ conns[j].upOpen
        /\ running /\ listening = PipeServers

\* C21 (Spec): whenever the proxy is marked running and neither start() nor
\* stop() is in progress, its control listener is bound and open.
CexC21_RunningMeansListening ==
    (running /\ startPc = "idle" /\ stopPc = "idle")
        => (control_server # NoServer /\ control_server \in listening)

\* C22 (Spec): the active-connection set holds exactly the handler tasks that
\* have started and have not finished.
CexC22_ActiveSetIsLiveHandlers ==
    \A i \in DOMAIN conns :
        i \in active_connections <=> conns[i].pc \notin {"created", "done"}

\* C23 (RaceSpec): as long as start() calls alone overlap (no stop() has
\* run), one call does all the binding: every bind attempted is the first
\* call's, every later call returns at once, no port has two listeners and
\* the list of data listeners holds a port at most once.
ThmC23_OneStartBinds ==
    ~everStopped =>
        /\ \A a \in attempts : a.call = 1
        /\ \A c \in StartCalls : c > 1 => frames[c].pc \in {"none", "returned"}
        /\ \A x, y \in listening : x.port = y.port => x = y
        /\ \A j, k \in DOMAIN data_servers :
               data_servers[j].port = data_servers[k].port => j = k
        /\ \A c \in StartCalls : frames[c].pc \notin {"none", "returned"} => running

\* a second start() was called, and returned, while the first was between
\* the bind of a data port and the append of its listener
WitC23_SecondStartDuringFirst ==
    /\ ~everStopped /\ nStartCalls = 2
    /\ frames[1].pc = "store_data" /\ frames[2].pc = "returned"
    /\ attempts # {}

\* C24 (RaceSpec): once a stop() has returned and every start() call made
\* before it has returned too, no listener of the proxy is open and the list
\* of data listeners is empty, also when the stop() ran in the middle of a
\* start().
CexC24_StopDuringStartLeavesNothing ==
    (lastStopped /\ \A c \in StartCalls : FrameIdle(frames[c]))
        => (listening = {} /\ data_servers = <<>>)

\* the number of stop() calls made on proxy k
StopCallsOn(k) == Cardinality({i \in DOMAIN stopOrder : stopOrder[i] = k})

\* C25 (SupSpec): the event, once set, stays set; when start() returns with
\* the event set, run_proxy calls stop() in the same segment and never
\* suspends in wait(); when start() raises, stop() is called on the proxy at
\* once and awaited before run_proxy raises; and when run_proxy has ended,
\* stop() was called exactly once on the proxy it constructed.
ThmC25_SignalKeptStopOnce ==
    /\ [][stop_event => stop_event']_vars
    /\ [][(supPc = "start" /\ stop_event /\ supPc' # "start")
            => (supPc' = "stop" /\ ~waited')]_vars
    /\ [][(supPc = "start" /\ supPc' # "start"
              /\ proxies'[camera_type].start = "raised")
            => (supPc' = "stop" /\ proxies'[camera_type].stop = "pending")]_vars
    /\ [](\A k \in CameraTypes : StopCallsOn(k) <= 1)
    /\ []((supPc = "wait" /\ stop_event) => ENABLED SupWake)
    /\ [](supPc \in {"done", "raised"} =>
            \A k \in Owned :
                StopCallsOn(k) = 1 /\ proxies[k].stop \in {"ok", "raised"})

\* the one signal arrived while start() was in progress: run_proxy never
\* waited, stopped the proxy and returned
WitC25_SignalDuringStart ==
    /\ supPc = "done" /\ nSignals = 1 /\ ~waited
    /\ proxies["chamber"] = [obj |-> TRUE, start |-> "ok", stop |-> "ok"]
    /\ stopOrder = <<"chamber">>

====
